---- MODULE Spec2Model ----
(***************************************************************************)
(* Model of ieptool: the election registry of src/main.rs (two maps behind *)
(* std mutexes, one tokio broadcast channel per election, the axum         *)
(* handlers that read and mutate them) and the tally of src/process.rs.    *)
(* Every handler is cut into the steps between which other tasks can       *)
(* interleave with it: taking the db mutex and reading the election,       *)
(* writing it, sending on the channel and returning (which drops the       *)
(* guard).  A statement that takes the streams mutex, uses the map and     *)
(* drops the guard again takes no other lock meanwhile and is one step.    *)
(***************************************************************************)
EXTENDS Integers, Sequences, FiniteSets, TLC

VARIABLES db, dbHolder, dbPoisoned, streams, subs, task, nreq, nchan, lin,
          tally, proc, npub

vars == <<db, dbHolder, dbPoisoned, streams, subs, task, nreq, nchan, lin, tally,
          proc, npub>>

(***************************************************************************)
(* Bounds of the model.                                                    *)
(***************************************************************************)
\* Number of requests the clients issue in one behaviour, and in one
\* behaviour of the longer runs of SpecLong.
MaxRequests == 4
MaxRequestsLong == 5

\* Requests of the runs of SpecStream, which fill a receiver's queue.
MaxRequestsStream == 18

\* Lines of a creation form, and calls made on one election run on its own.
MaxLines == 3
MaxCalls == 6

\* Request-handling tasks that run concurrently, and subscriber connections.
Tasks == {"t1", "t2"}
SubIds == {"s1"}

\* Identifiers the random token generator of post_election can return.
RandomIds == {"aaaaa"}
SeedId == "1337"
ElectionIds == {SeedId} \cup RandomIds

NoTask == "none"

(***************************************************************************)
(* Strings that the code orders are byte sequences, compared as Rust's     *)
(* Ord for str compares them: lexicographically, byte by byte.             *)
(***************************************************************************)
NameEmpty == <<>>
NameA == <<65>>
NameB == <<66>>
NameAmy == <<65, 109, 121>>
NameBo == <<66, 111>>
NameTestNominee1 == <<84, 101, 115, 116, 32, 78, 111, 109, 105, 110, 101, 101, 32, 49>>
NameTest2 == <<84, 101, 115, 116, 50>>
NameTestNominee3 == <<84, 101, 115, 116, 32, 78, 111, 109, 105, 110, 101, 101, 32, 51>>

IntCmp(a, b) == IF a < b THEN -1 ELSE IF a > b THEN 1 ELSE 0

RECURSIVE StrCmp(_, _)
StrCmp(a, b) ==
    IF a = <<>> /\ b = <<>> THEN 0
    ELSE IF a = <<>> THEN -1
    ELSE IF b = <<>> THEN 1
    ELSE IF Head(a) # Head(b) THEN IntCmp(Head(a), Head(b))
    ELSE StrCmp(Tail(a), Tail(b))

(***************************************************************************)
(* ElectionPhase: the enum's discriminants, its Display / FromStr names    *)
(* (strum), and the two transition tables.                                 *)
(***************************************************************************)
FirstVote == 0
FirstTally == 1
SecondVote == 2
SecondTally == 3
SafetyRound == 4

Phases == {FirstVote, FirstTally, SecondVote, SecondTally, SafetyRound}

PhaseNames == {"FirstVote", "FirstTally", "SecondVote", "SecondTally", "SafetyRound"}

\* strum::Display
PhaseToString(p) ==
    CASE p = FirstVote -> "FirstVote"
      [] p = FirstTally -> "FirstTally"
      [] p = SecondVote -> "SecondVote"
      [] p = SecondTally -> "SecondTally"
      [] p = SafetyRound -> "SafetyRound"

\* strum::EnumString: Ok(variant) for a variant's name, Err otherwise.
PhaseFromStrOk(s) == s \in PhaseNames

PhaseFromStr(s) ==
    CASE s = "FirstVote" -> FirstVote
      [] s = "FirstTally" -> FirstTally
      [] s = "SecondVote" -> SecondVote
      [] s = "SecondTally" -> SecondTally
      [] s = "SafetyRound" -> SafetyRound

\* The table of next with the last arm starting over.
step_next_wraps(p) ==
    CASE p = FirstVote -> FirstTally
      [] p = FirstTally -> SecondVote
      [] p = SecondVote -> SecondTally
      [] p = SecondTally -> SafetyRound
      [] p = SafetyRound -> FirstVote

step_next(p) ==
    CASE p = FirstVote -> FirstTally
      [] p = FirstTally -> SecondVote
      [] p = SecondVote -> SecondTally
      [] p = SecondTally -> SafetyRound
      [] p = SafetyRound -> SafetyRound

\* The table of prev with the last arm going back two phases.
step_prev_skips(p) ==
    CASE p = FirstVote -> FirstVote
      [] p = FirstTally -> FirstVote
      [] p = SecondVote -> FirstTally
      [] p = SecondTally -> SecondVote
      [] p = SafetyRound -> SecondVote

step_prev(p) ==
    CASE p = FirstVote -> FirstVote
      [] p = FirstTally -> FirstVote
      [] p = SecondVote -> FirstTally
      [] p = SecondTally -> SecondVote
      [] p = SafetyRound -> SecondTally

(***************************************************************************)
(* HashMap operations.                                                     *)
(***************************************************************************)
\* An insert that keeps the value of a key the map already holds.
MapInsertKeepsOld(m, k, v) ==
    IF k \in DOMAIN m THEN m ELSE (k :> v) @@ m

MapInsert(m, k, v) == [x \in DOMAIN m \cup {k} |-> IF x = k THEN v ELSE m[x]]

EmptyMap == <<>>

(***************************************************************************)
(* ElectionProcess.  elected_role is a display string no operation reads   *)
(* back and is left out of the record.                                     *)
(***************************************************************************)
RECURSIVE InsertSortedName(_, _)
InsertSortedName(x, s) ==
    IF s = <<>> THEN <<x>>
    ELSE LET l == s[Len(s)]
         IN IF StrCmp(l, x) <= 0 THEN Append(s, x)
            ELSE Append(InsertSortedName(x, SubSeq(s, 1, Len(s) - 1)), l)

RECURSIVE SortNames(_)
SortNames(s) ==
    IF s = <<>> THEN <<>>
    ELSE InsertSortedName(s[Len(s)], SortNames(SubSeq(s, 1, Len(s) - 1)))

\* A dedup that removes nothing.
DedupOff(s) == s

RECURSIVE Dedup(_)
Dedup(s) ==
    IF Len(s) <= 1 THEN s
    ELSE LET d == Dedup(SubSeq(s, 1, Len(s) - 1))
         IN IF d[Len(d)] = s[Len(s)] THEN d ELSE Append(d, s[Len(s)])

FilterNonEmpty(s) == SelectSeq(s, LAMBDA n : n # <<>>)

\* lines().filter(non-empty).sorted().dedup().enumerate(): ids 0..N-1.
CleanNominees(lines) ==
    LET names == Dedup(SortNames(FilterNonEmpty(lines)))
    IN [i \in 0 .. (Len(names) - 1) |-> names[i + 1]]

NewElection(lines) ==
    [phase |-> FirstVote,
     nominees |-> CleanNominees(lines),
     first_round_id |-> EmptyMap,
     second_round_id |-> EmptyMap]

\* The election main() puts into the registry at startup.
SeedElection ==
    [phase |-> FirstVote,
     nominees |-> (13589 :> NameTestNominee1 @@ 29852 :> NameTest2
                   @@ 96109 :> NameTestNominee3),
     first_round_id |-> ("Test Voter 1" :> 13589 @@ "Test Voter 2" :> 29852
                         @@ "Test Voter 3" :> 13589),
     second_round_id |-> EmptyMap]

\* The round selection with the second tally still reading round 1.
current_round_stale(e) ==
    CASE e.phase = FirstVote -> e.first_round_id
      [] e.phase = FirstTally -> e.first_round_id
      [] e.phase = SecondVote -> e.second_round_id
      [] e.phase = SecondTally -> e.first_round_id
      [] e.phase = SafetyRound -> e.second_round_id

\* The round the views read in each phase.
current_round(e) ==
    CASE e.phase = FirstVote -> e.first_round_id
      [] e.phase = FirstTally -> e.first_round_id
      [] e.phase = SecondVote -> e.second_round_id
      [] e.phase = SecondTally -> e.second_round_id
      [] e.phase = SafetyRound -> e.second_round_id

(***************************************************************************)
(* The tally: group the round by nominee id, look the name up (unwrap),    *)
(* sort with the comparator, reverse.                                      *)
(***************************************************************************)
VotedIds(round) == {round[v] : v \in DOMAIN round}

GroupLen(round, k) == Cardinality({v \in DOMAIN round : round[v] = k})

\* nominees.get(k).unwrap() panics for an id that is not in the registry.
TallyPanics(nominees, round) == \E k \in VotedIds(round) : k \notin DOMAIN nominees

\* The comparator with the .reverse() of the name comparison forgotten.
TallyCmpNoReverse(a, b) ==
    LET c == IntCmp(a.count, b.count)
    IN IF c # 0 THEN c ELSE StrCmp(a.name, b.name)

\* The comparator given to sorted_by: count ascending, then name reversed.
TallyCmp(a, b) ==
    LET c == IntCmp(a.count, b.count)
    IN IF c # 0 THEN c ELSE 0 - StrCmp(a.name, b.name)

RECURSIVE InsertSortedBy(_, _)
InsertSortedBy(x, s) ==
    IF s = <<>> THEN <<x>>
    ELSE LET l == s[Len(s)]
         IN IF TallyCmp(l, x) <= 0 THEN Append(s, x)
            ELSE Append(InsertSortedBy(x, SubSeq(s, 1, Len(s) - 1)), l)

\* itertools sorted_by: a stable sort.
RECURSIVE SortedBy(_)
SortedBy(s) ==
    IF s = <<>> THEN <<>>
    ELSE InsertSortedBy(s[Len(s)], SortedBy(SubSeq(s, 1, Len(s) - 1)))

Rev(s) == [i \in 1 .. Len(s) |-> s[Len(s) + 1 - i]]

\* order: the order in which the group map's iterator yields the ids.
accumulated_votes(nominees, round, order) ==
    LET entries == [i \in 1 .. Len(order) |->
                       [name |-> nominees[order[i]],
                        count |-> GroupLen(round, order[i])]]
        kept == SelectSeq(entries, LAMBDA x : x.count > 0)
    IN Rev(SortedBy(kept))

Orders(S) == {o \in [1 .. Cardinality(S) -> S] : \A x \in S : \E i \in DOMAIN o : o[i] = x}

(***************************************************************************)
(* The evaluation view.  A view is what the page shows: the number of      *)
(* votes, the voter list of a vote phase, the chart rows of a tally phase  *)
(* with the count each bar is scaled by, or the safety round's readout.    *)
(***************************************************************************)
NoView ==
    [kind |-> "none", count |-> 0, voters |-> {}, entries |-> <<>>,
     max_votes |-> 0, winners |-> <<>>]

RECURSIVE MaxCount(_)
MaxCount(acc) ==
    IF Len(acc) = 1 THEN acc[1].count
    ELSE LET m == MaxCount(Tail(acc))
         IN IF acc[1].count >= m THEN acc[1].count ELSE m

\* The largest count without the floor of 1.
max_votes_unfloored(acc) == IF acc = <<>> THEN 0 ELSE MaxCount(acc)

\* .iter().map(|(_k, v)| *v).max().unwrap_or(1)
max_votes(acc) == IF acc = <<>> THEN 1 ELSE MaxCount(acc)

\* .iter().filter(|(_k, v)| *v == max_votes).map(|(k, _v)| k.to_string())
all_with_max_votes(acc) ==
    LET kept == SelectSeq(acc, LAMBDA x : x.count = max_votes(acc))
    IN [i \in 1 .. Len(kept) |-> kept[i].name]

\* eval_tally: the voter list outside the tally phases, the chart in them.
eval_tally(e, order) ==
    LET round == current_round(e)
    IN IF e.phase \notin {FirstTally, SecondTally}
         THEN [NoView EXCEPT !.kind = "voters", !.voters = DOMAIN round]
         ELSE LET acc == accumulated_votes(e.nominees, round, order)
              IN [NoView EXCEPT !.kind = "tally", !.entries = acc,
                                !.max_votes = max_votes(acc)]

\* eval_election: the safety round's readout is computed here from
\* second_round_id; the other phases show the number of votes and the tally.
eval_election(e, order) ==
    IF e.phase = SafetyRound
      THEN LET acc == accumulated_votes(e.nominees, e.second_round_id, order)
           IN [NoView EXCEPT !.kind = "safety", !.entries = acc,
                             !.max_votes = max_votes(acc),
                             !.winners = all_with_max_votes(acc)]
      ELSE [eval_tally(e, order) EXCEPT
               !.count = IF e.phase \in {FirstVote, FirstTally}
                           THEN Cardinality(DOMAIN e.first_round_id)
                           ELSE Cardinality(DOMAIN e.second_round_id)]

\* The round whose group map the view iterates.
ViewRound(e) ==
    IF e.phase = SafetyRound THEN e.second_round_id ELSE current_round(e)


(***************************************************************************)
(* Requests.  A task is idle or runs one handler; pc is the handler's next *)
(* step.  A handler's arguments are drawn when it first reads them.  snap, *)
(* snapPhase, seenPhase, applied and conc are history fields: the election *)
(* as it was when the handler reached the mutex, its phase when the client *)
(* sent the request, whether the handler ran a mutation arm, and whether   *)
(* the request was sent while the request that another task still holds    *)
(* was being handled.                                                      *)
(***************************************************************************)
Absent ==
    [phase |-> 0 - 1, nominees |-> EmptyMap,
     first_round_id |-> EmptyMap, second_round_id |-> EmptyMap]

IdleTask ==
    [op |-> "idle", pc |-> "idle", id |-> "", stype |-> "", label |-> "",
     voter |-> "", vote |-> 0, chan |-> 0 - 1, ph |-> 0 - 1,
     res |-> "", applied |-> FALSE, snap |-> Absent, snapPhase |-> 0 - 1,
     seenPhase |-> 0 - 1, conc |-> FALSE]

\* Inputs of the requests.
StepTypes == {"next", "prev", "reset", "sideways"}
VoterNames == {"x"}
VoteIds == {0, 13589}
NameLists == {<<NameB, NameA, NameA>>}

\* The election post_election builds from each form, computed once.
FormElections == [lines \in NameLists |-> NewElection(lines)]

PhaseOf(d, id) == IF id \in DOMAIN d THEN d[id].phase ELSE 0 - 1

ElectionOf(d, id) == IF id \in DOMAIN d THEN d[id] ELSE Absent

\* The label a client sends: the phase of the page it rendered (the buttons
\* of eval_election carry election.phase.to_string()), or a string that
\* names no phase.
LabelChoices(id) ==
    (IF id \in DOMAIN db THEN {PhaseToString(db[id].phase)} ELSE {"FirstVote"})
        \cup {"NoSuchPhase"}

NewRequests ==
    {[IdleTask EXCEPT !.op = "create", !.pc = "begin"]}
    \cup UNION {{[IdleTask EXCEPT !.op = "step", !.pc = "begin", !.id = id,
                     !.label = lb, !.seenPhase = PhaseOf(db, id)]
                    : lb \in LabelChoices(id)} : id \in ElectionIds}
    \cup {[IdleTask EXCEPT !.op = o, !.pc = "begin", !.id = id,
              !.seenPhase = PhaseOf(db, id)]
             : o \in {"vote", "read", "sse"}, id \in ElectionIds}

\* A request goes to the first task that is free.
Earlier(t) == IF t = "t2" THEN {"t1"} ELSE {}

\* A receiver of a channel with the stream around it: the election it was
\* opened for, the values queued for it, the number of values it lost to the
\* channel's capacity and has not been told of, and whether the stream
\* panicked.  since is a history field: the number of values sent, on any
\* channel, before the receiver was made.
InactiveSub ==
    [active |-> FALSE, chan |-> 0 - 1, id |-> "", q |-> <<>>, lag |-> 0,
     panicked |-> FALSE, since |-> 0]

FreeSubs == {s \in SubIds : ~subs[s].active}

SseInFlight == {t \in Tasks : task[t].op = "sse" /\ task[t].pc # "done"}

\* Another task is handling a request that is not answered yet.
Overlaps(t) == \E u \in Tasks \ {t} : task[u].op # "idle" /\ task[u].pc # "done"

\* A client sends one of the requests reqs; a task picks it up.
Dispatch(t, max, reqs) ==
    /\ task[t].op = "idle"
    /\ \A u \in Earlier(t) : task[u].op # "idle"
    /\ nreq < max
    /\ \E r \in reqs :
          /\ r.op = "sse" => Cardinality(FreeSubs) > Cardinality(SseInFlight)
          /\ task' = [task EXCEPT ![t] = [r EXCEPT !.conc = Overlaps(t)]]
    /\ nreq' = nreq + 1
    /\ UNCHANGED <<db, dbHolder, dbPoisoned, streams, subs, nchan, lin, tally, proc,
                   npub>>

\* A client sends a request; a task picks it up.
StartRequest(t, max) == Dispatch(t, max, NewRequests)

\* The handler returns res: its db guard goes out of scope.  The response
\* keeps the request's path, outcome and history fields until it is written.
Finish(t, r, res) ==
    /\ task' = [task EXCEPT ![t] =
                   [IdleTask EXCEPT !.op = r.op, !.pc = "done", !.id = r.id,
                                    !.label = r.label, !.stype = r.stype,
                                    !.res = res, !.applied = r.applied,
                                    !.snapPhase = r.snapPhase,
                                    !.seenPhase = r.seenPhase,
                                    !.conc = r.conc]]
    /\ dbHolder' = IF dbHolder = t THEN NoTask ELSE dbHolder

\* The response has been written; the task is free again, and no request is
\* concurrent with the one that is gone.
Respond(t) ==
    /\ task[t].pc = "done"
    /\ task' = [u \in Tasks |-> IF u = t THEN IdleTask
                                ELSE [task[u] EXCEPT !.conc = FALSE]]
    /\ UNCHANGED <<db, dbHolder, dbPoisoned, streams, subs, nreq, nchan, lin, tally, proc,
                   npub>>

(***************************************************************************)
(* The db mutex.  std::sync::Mutex::lock blocks while another thread holds *)
(* the mutex and returns Err once a thread has panicked holding it; every  *)
(* handler maps that Err to a 500 response.  The guard is dropped at the   *)
(* end of the handler.                                                     *)
(***************************************************************************)
\* A lock that never excludes anybody.
DbLockFreeBroken == TRUE

DbLockFree == dbHolder = NoTask

(***************************************************************************)
(* tokio::sync::broadcast.  A channel is known by the number it got when   *)
(* it was made.  send fails when the channel has no receiver and otherwise *)
(* queues the value for every receiver; it never waits.  A receiver that   *)
(* has Capacity values queued loses the oldest of them to the next send.   *)
(* npub counts the values sent; a value carries, as history, its number    *)
(* and the election of the request that sent it.                           *)
(***************************************************************************)
Capacity == 16

Event(kind, id) == [kind |-> kind, id |-> id, no |-> npub + 1]

\* Receivers that take the values of every channel.
ReceiversOfAny(chan) == {s \in SubIds : subs[s].active}

Receivers(chan) == {s \in SubIds : subs[s].active /\ subs[s].chan = chan}

SendOk(chan) == Receivers(chan) # {}

Sent(chan, ev) ==
    [s \in SubIds |->
        IF s \notin Receivers(chan) THEN subs[s]
        ELSE IF Len(subs[s].q) < Capacity
               THEN [subs[s] EXCEPT !.q = Append(@, ev)]
               ELSE [subs[s] EXCEPT !.q = Append(Tail(@), ev), !.lag = @ + 1]]

(***************************************************************************)
(* The mutations of an election.                                           *)
(***************************************************************************)
\* The match of post_election_voting with its last arm writing round 1.
AddVoteAnyPhase(e, ph, voter, vote) ==
    CASE ph = SecondVote ->
             [e EXCEPT !.second_round_id = MapInsert(@, voter, vote)]
      [] OTHER -> [e EXCEPT !.first_round_id = MapInsert(@, voter, vote)]

\* match election.phase { FirstVote => .., SecondVote => .., _ => {} }
AddVote(e, ph, voter, vote) ==
    CASE ph = FirstVote ->
             [e EXCEPT !.first_round_id = MapInsert(@, voter, vote)]
      [] ph = SecondVote ->
             [e EXCEPT !.second_round_id = MapInsert(@, voter, vote)]
      [] OTHER -> e

\* The arms of match &step_type[..] writing a copy of the election.
ApplyStepLost(e, stype) == e

\* The arms with reset clearing both rounds in either vote phase.
ApplyStepResetsBoth(e, stype) ==
    CASE stype = "next" -> [e EXCEPT !.phase = step_next(e.phase)]
      [] stype = "prev" -> [e EXCEPT !.phase = step_prev(e.phase)]
      [] stype = "reset" ->
             IF e.phase \in {FirstVote, SecondVote}
               THEN [e EXCEPT !.first_round_id = EmptyMap,
                              !.second_round_id = EmptyMap]
               ELSE e

\* The arms with prev emptying the round it steps back into.
ApplyStepPrevClears(e, stype) ==
    CASE stype = "next" -> [e EXCEPT !.phase = step_next(e.phase)]
      [] stype = "prev" ->
             [e EXCEPT !.phase = step_prev(e.phase),
                       !.first_round_id =
                           IF step_prev(e.phase) = FirstVote THEN EmptyMap ELSE @,
                       !.second_round_id =
                           IF step_prev(e.phase) = SecondVote THEN EmptyMap ELSE @]
      [] stype = "reset" ->
             IF e.phase = FirstVote THEN [e EXCEPT !.first_round_id = EmptyMap]
             ELSE IF e.phase = SecondVote
                    THEN [e EXCEPT !.second_round_id = EmptyMap]
                    ELSE e

\* The three arms of match &step_type[..].
ApplyStep(e, stype) ==
    CASE stype = "next" -> [e EXCEPT !.phase = step_next(e.phase)]
      [] stype = "prev" -> [e EXCEPT !.phase = step_prev(e.phase)]
      [] stype = "reset" ->
             IF e.phase = FirstVote THEN [e EXCEPT !.first_round_id = EmptyMap]
             ELSE IF e.phase = SecondVote
                    THEN [e EXCEPT !.second_round_id = EmptyMap]
                    ELSE e

ValidStepType(stype) == stype \in {"next", "prev", "reset"}

(***************************************************************************)
(* The operations of the registry as the specification describes them,    *)
(* each an atomic function of the registry.  lin is the registry they      *)
(* produce when the requests are applied one at a time, each at the step   *)
(* at which its handler writes.                                            *)
(***************************************************************************)
SpecAdvance(p) == IF p < SafetyRound THEN p + 1 ELSE p

SpecRewind(p) == IF p > FirstVote THEN p - 1 ELSE p

SpecCastVote(e, voter, vote) ==
    IF e.phase = FirstVote
      THEN [e EXCEPT !.first_round_id = MapInsert(@, voter, vote)]
      ELSE IF e.phase = SecondVote
             THEN [e EXCEPT !.second_round_id = MapInsert(@, voter, vote)]
             ELSE e

SpecTransition(e, stype) ==
    IF stype = "next" THEN [e EXCEPT !.phase = SpecAdvance(e.phase)]
    ELSE IF stype = "prev" THEN [e EXCEPT !.phase = SpecRewind(e.phase)]
    ELSE IF stype = "reset" /\ e.phase = FirstVote
           THEN [e EXCEPT !.first_round_id = EmptyMap]
    ELSE IF stype = "reset" /\ e.phase = SecondVote
           THEN [e EXCEPT !.second_round_id = EmptyMap]
    ELSE e

LinCreate(d, id, lines) == MapInsert(d, id, FormElections[lines])

LinVote(d, id, voter, vote) ==
    IF id \in DOMAIN d
      THEN [d EXCEPT ![id] = SpecCastVote(d[id], voter, vote)]
      ELSE d

LinStep(d, id, stype, label) ==
    IF id \in DOMAIN d /\ label = PhaseToString(d[id].phase)
      THEN [d EXCEPT ![id] = SpecTransition(d[id], stype)]
      ELSE d


\* The handler goes on to its step next, holding the db guard.
Continue(t, r, next) ==
    /\ task' = [task EXCEPT ![t] = [r EXCEPT !.pc = next]]
    /\ dbHolder' = t

\* The history fields taken when the handler reaches state.db.lock().
AtLock(r) ==
    [r EXCEPT !.snap = ElectionOf(db, r.id), !.snapPhase = PhaseOf(db, r.id)]

(***************************************************************************)
(* post_election                                                           *)
(***************************************************************************)
\* The insert with the db guard dropped before the channel is inserted.
CreateInsertUnlocks(t) ==
    /\ task[t].op = "create" /\ task[t].pc = "begin"
    /\ DbLockFree
    /\ IF dbPoisoned
         THEN /\ Finish(t, task[t], "DbLockError")
              /\ UNCHANGED <<db, lin>>
         ELSE \E id \in RandomIds, lines \in NameLists :
                 /\ db' = MapInsert(db, id, FormElections[lines])
                 /\ lin' = LinCreate(lin, id, lines)
                 /\ task' = [task EXCEPT ![t] =
                                [@ EXCEPT !.id = id, !.applied = TRUE,
                                          !.pc = "streams"]]
                 /\ UNCHANGED dbHolder
    /\ UNCHANGED <<dbPoisoned, streams, subs, nreq, nchan, tally, proc,
                   npub>>

\* db.lock()?; the random id; the election built from the form; db.insert.
CreateInsert(t) ==
    /\ task[t].op = "create" /\ task[t].pc = "begin"
    /\ DbLockFree
    /\ IF dbPoisoned
         THEN /\ Finish(t, task[t], "DbLockError")
              /\ UNCHANGED <<db, lin>>
         ELSE \E id \in RandomIds, lines \in NameLists :
                 /\ db' = MapInsert(db, id, FormElections[lines])
                 /\ lin' = LinCreate(lin, id, lines)
                 /\ Continue(t, [task[t] EXCEPT !.id = id, !.applied = TRUE],
                             "streams")
    /\ UNCHANGED <<dbPoisoned, streams, subs, nreq, nchan, tally, proc,
                   npub>>

\* streams.lock().unwrap().insert(id, channel(16).0); Ok(CREATED)
CreateStreamsInsert(t) ==
    /\ task[t].op = "create" /\ task[t].pc = "streams"
    /\ streams' = MapInsert(streams, task[t].id, nchan)
    /\ nchan' = nchan + 1
    /\ Finish(t, task[t], "Created")
    /\ UNCHANGED <<db, dbPoisoned, subs, nreq, lin, tally, proc,
                   npub>>

(***************************************************************************)
(* post_election_step                                                      *)
(***************************************************************************)
\* The guard with the else branch sending PhaseChanged before it answers.
StepBeginNotifiesConflict(t) ==
    /\ task[t].op = "step" /\ task[t].pc = "begin"
    /\ DbLockFree
    /\ \E stype \in StepTypes :
          LET r == AtLock([task[t] EXCEPT !.stype = stype])
              quiet == UNCHANGED <<subs, npub>>
          IN IF dbPoisoned THEN Finish(t, r, "DbLockError") /\ quiet
             ELSE IF r.id \notin DOMAIN db THEN Finish(t, r, "NotFound") /\ quiet
             ELSE IF r.id \notin DOMAIN streams
                    THEN Finish(t, r, "StreamNotFound") /\ quiet
             ELSE IF ~PhaseFromStrOk(r.label)
                    THEN Finish(t, r, "UnknownPhase") /\ quiet
             ELSE IF db[r.id].phase = PhaseFromStr(r.label)
                    THEN /\ Continue(t, [r EXCEPT !.ph = db[r.id].phase,
                                                  !.chan = streams[r.id]], "apply")
                         /\ quiet
                    ELSE /\ Finish(t, r, "PhaseConflict")
                         /\ subs' = Sent(streams[r.id], Event("PhaseChanged", r.id))
                         /\ npub' = npub + 1
    /\ UNCHANGED <<db, dbPoisoned, streams, nreq, nchan, lin, tally, proc>>

\* db.lock()?; db.get_mut(&id)?; streams.lock()?.get(&id)?.clone();
\* election.phase.eq(&ElectionPhase::from_str(&step)?)
StepBegin(t) ==
    /\ task[t].op = "step" /\ task[t].pc = "begin"
    /\ DbLockFree
    /\ \E stype \in StepTypes :
          LET r == AtLock([task[t] EXCEPT !.stype = stype])
          IN IF dbPoisoned THEN Finish(t, r, "DbLockError")
             ELSE IF r.id \notin DOMAIN db THEN Finish(t, r, "NotFound")
             ELSE IF r.id \notin DOMAIN streams THEN Finish(t, r, "StreamNotFound")
             ELSE IF ~PhaseFromStrOk(r.label) THEN Finish(t, r, "UnknownPhase")
             ELSE IF db[r.id].phase = PhaseFromStr(r.label)
                    THEN Continue(t, [r EXCEPT !.ph = db[r.id].phase,
                                               !.chan = streams[r.id]], "apply")
                    ELSE Finish(t, r, "PhaseConflict")
    /\ UNCHANGED <<db, dbPoisoned, streams, subs, nreq, nchan, lin, tally, proc,
                   npub>>

\* The match with the "next" arm taken for a direction that names no arm.
StepApplyDefaultsToNext(t) ==
    /\ task[t].op = "step" /\ task[t].pc = "apply"
    /\ LET stype == IF ValidStepType(task[t].stype) THEN task[t].stype ELSE "next"
       IN /\ db' = [db EXCEPT ![task[t].id] = ApplyStep(@, stype)]
          /\ lin' = LinStep(lin, task[t].id, stype, task[t].label)
          /\ Continue(t, [task[t] EXCEPT !.applied = TRUE], "send")
    /\ UNCHANGED <<dbPoisoned, streams, subs, nreq, nchan, tally, proc,
                   npub>>

\* match &step_type[..] { "next" .. "prev" .. "reset" .. _ => Err }?
StepApply(t) ==
    /\ task[t].op = "step" /\ task[t].pc = "apply"
    /\ IF ValidStepType(task[t].stype)
         THEN /\ db' = [db EXCEPT ![task[t].id] = ApplyStep(@, task[t].stype)]
              /\ lin' = LinStep(lin, task[t].id, task[t].stype, task[t].label)
              /\ Continue(t, [task[t] EXCEPT !.applied = TRUE], "send")
         ELSE /\ Finish(t, task[t], "InvalidDirection")
              /\ UNCHANGED <<db, lin>>
    /\ UNCHANGED <<dbPoisoned, streams, subs, nreq, nchan, tally, proc,
                   npub>>

\* stream.send(PhaseChanged).map_err(500)?; Ok(ACCEPTED)
StepSend(t) ==
    /\ task[t].op = "step" /\ task[t].pc = "send"
    /\ IF SendOk(task[t].chan)
         THEN /\ subs' = Sent(task[t].chan, Event("PhaseChanged", task[t].id))
              /\ npub' = npub + 1
              /\ Finish(t, task[t], "Accepted")
         ELSE /\ Finish(t, task[t], "StreamSendError")
              /\ UNCHANGED <<subs, npub>>
    /\ UNCHANGED <<db, dbPoisoned, streams, nreq, nchan, lin, tally, proc>>

(***************************************************************************)
(* post_election_voting                                                    *)
(***************************************************************************)
\* db.lock()?; db.get_mut(&id)?; match election.phase
VoteBegin(t) ==
    /\ task[t].op = "vote" /\ task[t].pc = "begin"
    /\ DbLockFree
    /\ LET r == AtLock(task[t])
       IN IF dbPoisoned THEN Finish(t, r, "DbLockError")
          ELSE IF r.id \notin DOMAIN db THEN Finish(t, r, "NotFound")
          ELSE Continue(t, [r EXCEPT !.ph = db[r.id].phase], "insert")
    /\ UNCHANGED <<db, dbPoisoned, streams, subs, nreq, nchan, lin, tally, proc,
                   npub>>

\* The arm of the match: insert into the round of the phase that was read.
VoteInsert(t) ==
    /\ task[t].op = "vote" /\ task[t].pc = "insert"
    /\ \E voter \in VoterNames, vote \in VoteIds :
          /\ db' = [db EXCEPT ![task[t].id] = AddVote(@, task[t].ph, voter, vote)]
          /\ lin' = LinVote(lin, task[t].id, voter, vote)
          /\ Continue(t, [task[t] EXCEPT !.voter = voter, !.vote = vote,
                                         !.applied = TRUE], "send")
    /\ UNCHANGED <<dbPoisoned, streams, subs, nreq, nchan, tally, proc,
                   npub>>

\* streams.lock()?.get(&id).ok_or(500)?.send(VotesChanged).map_err(500)?
VoteSend(t) ==
    /\ task[t].op = "vote" /\ task[t].pc = "send"
    /\ IF task[t].id \notin DOMAIN streams
         THEN /\ Finish(t, task[t], "StreamNotFound")
              /\ UNCHANGED <<subs, npub>>
         ELSE IF SendOk(streams[task[t].id])
                THEN /\ subs' = Sent(streams[task[t].id],
                                     Event("VotesChanged", task[t].id))
                     /\ npub' = npub + 1
                     /\ Finish(t, task[t], "Ok")
                ELSE /\ Finish(t, task[t], "StreamSendError")
                     /\ UNCHANGED <<subs, npub>>
    /\ UNCHANGED <<db, dbPoisoned, streams, nreq, nchan, lin, tally, proc>>

(***************************************************************************)
(* get_election_eval_content (view_election_eval, view_election_voting and *)
(* get_election_voting_form take the same guard and render the same tally) *)
(***************************************************************************)
\* The views of the two tally phases and of the safety round unwrap the name
\* of every voted id; the views of the two vote phases list the voters.
EvalPanics(e) ==
    /\ e.phase \in {FirstTally, SecondTally, SafetyRound}
    /\ TallyPanics(e.nominees, current_round(e))

\* db.lock()?; db.get(&id).ok_or(NOT_FOUND)?; Ok(eval_election(election)).
\* A panic unwinds through the db guard, which poisons the mutex.
ReadEval(t) ==
    /\ task[t].op = "read" /\ task[t].pc = "begin"
    /\ DbLockFree
    /\ LET r == AtLock(task[t])
       IN IF dbPoisoned
            THEN /\ Finish(t, r, "DbLockError")
                 /\ UNCHANGED dbPoisoned
            ELSE IF r.id \notin DOMAIN db
                   THEN /\ Finish(t, r, "NotFound")
                        /\ UNCHANGED dbPoisoned
                   ELSE IF EvalPanics(db[r.id])
                          THEN /\ Finish(t, r, "Panic")
                               /\ dbPoisoned' = TRUE
                          ELSE /\ Finish(t, r, "Ok")
                               /\ UNCHANGED dbPoisoned
    /\ UNCHANGED <<db, streams, subs, nreq, nchan, lin, tally, proc,
                   npub>>

(***************************************************************************)
(* get_election_sse_stream, and the stream it returns                      *)
(***************************************************************************)
\* streams.lock()?.get(&id).ok_or(NOT_FOUND)?.subscribe()
SseSubscribe(t) ==
    /\ task[t].op = "sse" /\ task[t].pc = "begin"
    /\ IF task[t].id \in DOMAIN streams
         THEN /\ \E s \in FreeSubs :
                    subs' = [subs EXCEPT ![s] =
                                [InactiveSub EXCEPT
                                    !.active = TRUE,
                                    !.chan = streams[task[t].id],
                                    !.id = task[t].id,
                                    !.since = npub]]
              /\ Finish(t, task[t], "Stream")
         ELSE /\ Finish(t, task[t], "NotFound")
              /\ UNCHANGED subs
    /\ UNCHANGED <<db, dbPoisoned, streams, nreq, nchan, lin, tally, proc,
                   npub>>

\* The stream is polled.  It yields the oldest queued event, which goes out
\* as an SSE event; or, the receiver having lost values, it yields
\* Err(Lagged), on which msg.unwrap() panics: the stream and its receiver are
\* gone, with every value still queued.
Deliver(s) ==
    /\ subs[s].active
    /\ subs[s].q # <<>>
    /\ subs' = [subs EXCEPT ![s] =
                   IF subs[s].lag > 0
                     THEN [InactiveSub EXCEPT !.panicked = TRUE]
                     ELSE [@ EXCEPT !.q = Tail(@)]]
    /\ UNCHANGED <<db, dbHolder, dbPoisoned, streams, task, nreq, nchan, lin, tally, proc,
                   npub>>

\* The client goes away: the stream and its receiver are dropped.
Disconnect(s) ==
    /\ subs[s].active
    /\ subs' = [subs EXCEPT ![s] = InactiveSub]
    /\ UNCHANGED <<db, dbHolder, dbPoisoned, streams, task, nreq, nchan, lin, tally, proc,
                   npub>>

(***************************************************************************)
(* The system: main() builds the two maps with the seeded election.        *)
(***************************************************************************)
NoTally == [st |-> "none", nominees |-> EmptyMap, round |-> EmptyMap, res |-> <<>>]

\* No ElectionProcess is being exercised on its own.
NoProc ==
    [st |-> "none", lines |-> <<>>, e |-> Absent, calls |-> 0, hist |-> <<>>,
     view |-> NoView]

Init ==
    /\ db = (SeedId :> SeedElection)
    /\ lin = (SeedId :> SeedElection)
    /\ dbHolder = NoTask
    /\ dbPoisoned = FALSE
    /\ streams = (SeedId :> 0)
    /\ nchan = 1
    /\ subs = [s \in SubIds |-> InactiveSub]
    /\ task = [t \in Tasks |-> IdleTask]
    /\ nreq = 0
    /\ tally = NoTally
    /\ proc = NoProc
    /\ npub = 0

Handle ==
    \/ \E t \in Tasks : Respond(t)
    \/ \E t \in Tasks : CreateInsert(t)
    \/ \E t \in Tasks : CreateStreamsInsert(t)
    \/ \E t \in Tasks : StepBegin(t)
    \/ \E t \in Tasks : StepApply(t)
    \/ \E t \in Tasks : StepSend(t)
    \/ \E t \in Tasks : VoteBegin(t)
    \/ \E t \in Tasks : VoteInsert(t)
    \/ \E t \in Tasks : VoteSend(t)
    \/ \E t \in Tasks : ReadEval(t)
    \/ \E t \in Tasks : SseSubscribe(t)
    \/ \E s \in SubIds : Deliver(s)
    \/ \E s \in SubIds : Disconnect(s)

Next ==
    \/ \E t \in Tasks : StartRequest(t, MaxRequests)
    \/ Handle

Spec == Init /\ [][Next]_vars

\* The same system, run for one request more.
NextLong ==
    \/ \E t \in Tasks : StartRequest(t, MaxRequestsLong)
    \/ Handle

SpecLong == Init /\ [][NextLong]_vars

\* The same system with clients that only vote on the seeded election and
\* listen to it, for as many requests as fill a receiver's queue.
StreamRequests == {r \in NewRequests : r.id = SeedId /\ r.op \in {"vote", "sse"}}

NextStream ==
    \/ \E t \in Tasks : Dispatch(t, MaxRequestsStream, StreamRequests)
    \/ \E t \in Tasks : Respond(t)
    \/ \E t \in Tasks : VoteBegin(t)
    \/ \E t \in Tasks : VoteInsert(t)
    \/ \E t \in Tasks : VoteSend(t)
    \/ \E t \in Tasks : SseSubscribe(t)
    \/ \E s \in SubIds : Deliver(s)
    \/ \E s \in SubIds : Disconnect(s)

SpecStream == Init /\ [][NextStream]_vars

(***************************************************************************)
(* The tally on its own: a registry as post_election or main() builds it,  *)
(* any round over three voters, and any order of the group map's iterator. *)
(***************************************************************************)
TallyVoters == {"v1", "v2", "v3"}

\* An id that no registry holds.
UnknownIds == {7}

TallyRegistries ==
    {CleanNominees(<<NameAmy, NameEmpty, NameBo>>),
     CleanNominees(<<NameB, NameA, NameA>>),
     SeedElection.nominees}

TallyRounds(nominees) ==
    UNION {[V -> DOMAIN nominees \cup UnknownIds] : V \in SUBSET TallyVoters}

InitTally ==
    /\ db = (SeedId :> SeedElection)
    /\ lin = (SeedId :> SeedElection)
    /\ dbHolder = NoTask
    /\ dbPoisoned = FALSE
    /\ streams = (SeedId :> 0)
    /\ nchan = 1
    /\ subs = [s \in SubIds |-> InactiveSub]
    /\ task = [t \in Tasks |-> IdleTask]
    /\ nreq = 0
    /\ \E nominees \in TallyRegistries :
          \E round \in TallyRounds(nominees) :
             tally = [NoTally EXCEPT !.nominees = nominees, !.round = round]
    /\ proc = NoProc
    /\ npub = 0

RunTally ==
    /\ tally.st = "none"
    /\ IF TallyPanics(tally.nominees, tally.round)
         THEN tally' = [tally EXCEPT !.st = "panic"]
         ELSE \E order \in Orders(VotedIds(tally.round)) :
                 tally' = [tally EXCEPT
                              !.st = "ok",
                              !.res = accumulated_votes(tally.nominees,
                                                        tally.round, order)]
    /\ UNCHANGED <<db, dbHolder, dbPoisoned, streams, subs, task, nreq, nchan, lin,
                   proc, npub>>

NextTally == RunTally

SpecTally == InitTally /\ [][NextTally]_vars

(***************************************************************************)
(* One election on its own: built from a form as post_election builds it,  *)
(* then taken through the mutation arms of the handlers one call at a      *)
(* time.  hist keeps, for the last two calls, the arm and the phase it     *)
(* found.                                                                  *)
(***************************************************************************)
Called(h, op, from) ==
    LET a == Append(h, [op |-> op, from |-> from])
    IN IF Len(a) > 2 THEN Tail(a) ELSE a

FormNames == {NameEmpty, NameA, NameB, NameAmy, NameBo}

FormLines == UNION {[1 .. n -> FormNames] : n \in 0 .. MaxLines}

InitProcess ==
    /\ db = (SeedId :> SeedElection)
    /\ lin = (SeedId :> SeedElection)
    /\ dbHolder = NoTask
    /\ dbPoisoned = FALSE
    /\ streams = (SeedId :> 0)
    /\ nchan = 1
    /\ subs = [s \in SubIds |-> InactiveSub]
    /\ task = [t \in Tasks |-> IdleTask]
    /\ nreq = 0
    /\ tally = NoTally
    /\ \E lines \in FormLines : proc = [NoProc EXCEPT !.st = "form", !.lines = lines]
    /\ npub = 0

\* The election post_election builds from the form.
ProcCreate ==
    /\ proc.st = "form"
    /\ proc' = [proc EXCEPT !.st = "created", !.e = NewElection(proc.lines)]
    /\ UNCHANGED <<db, dbHolder, dbPoisoned, streams, subs, task, nreq, nchan, lin,
                   tally, npub>>

\* One arm of match &step_type[..] of post_election_step.
ProcStep ==
    /\ proc.st = "created"
    /\ proc.calls < MaxCalls
    /\ \E stype \in {"next", "prev", "reset"} :
          proc' = [proc EXCEPT
                      !.e = ApplyStep(@, stype),
                      !.calls = @ + 1,
                      !.hist = Called(@, stype, proc.e.phase)]
    /\ UNCHANGED <<db, dbHolder, dbPoisoned, streams, subs, task, nreq, nchan, lin,
                   tally, npub>>

\* The match of post_election_voting.
ProcVote ==
    /\ proc.st = "created"
    /\ proc.calls < MaxCalls
    /\ \E voter \in VoterNames, vote \in DOMAIN proc.e.nominees \cup UnknownIds :
          proc' = [proc EXCEPT
                      !.e = AddVote(@, proc.e.phase, voter, vote),
                      !.calls = @ + 1,
                      !.hist = Called(@, "vote", proc.e.phase)]
    /\ UNCHANGED <<db, dbHolder, dbPoisoned, streams, subs, task, nreq, nchan, lin,
                   tally, npub>>

NextProcess == ProcCreate \/ ProcStep \/ ProcVote

SpecProcess == InitProcess /\ [][NextProcess]_vars

(***************************************************************************)
(* The evaluation view on its own: an election in any phase, with any two  *)
(* rounds over three voters, rendered once.  Rounds survive the phase      *)
(* steps and votes are stored unchecked, so every such election can be in  *)
(* the map.                                                                *)
(***************************************************************************)
InitView ==
    /\ db = (SeedId :> SeedElection)
    /\ lin = (SeedId :> SeedElection)
    /\ dbHolder = NoTask
    /\ dbPoisoned = FALSE
    /\ streams = (SeedId :> 0)
    /\ nchan = 1
    /\ subs = [s \in SubIds |-> InactiveSub]
    /\ task = [t \in Tasks |-> IdleTask]
    /\ nreq = 0
    /\ tally = NoTally
    /\ \E nominees \in TallyRegistries, ph \in Phases :
          \E r1 \in TallyRounds(nominees), r2 \in TallyRounds(nominees) :
             proc = [NoProc EXCEPT
                        !.st = "stored",
                        !.e = [phase |-> ph, nominees |-> nominees,
                               first_round_id |-> r1, second_round_id |-> r2]]
    /\ npub = 0

\* eval_election(election) of get_election_eval_content.
RunView ==
    /\ proc.st = "stored"
    /\ IF EvalPanics(proc.e)
         THEN proc' = [proc EXCEPT !.st = "viewed", !.view.kind = "panic"]
         ELSE \E order \in Orders(VotedIds(ViewRound(proc.e))) :
                 proc' = [proc EXCEPT !.st = "viewed",
                                      !.view = eval_election(proc.e, order)]
    /\ UNCHANGED <<db, dbHolder, dbPoisoned, streams, subs, task, nreq, nchan, lin,
                   tally, npub>>

NextView == RunView

SpecView == InitView /\ [][NextView]_vars

(***************************************************************************)
(* One open round: an election in a vote phase with both rounds empty      *)
(* takes votes, is stepped into its tally phase and is rendered.  hist     *)
(* keeps every vote in the order of the calls.                             *)
(***************************************************************************)
MaxVotes == 4

BallotVoters == {"v1", "v2"}

InitBallot ==
    /\ db = (SeedId :> SeedElection)
    /\ lin = (SeedId :> SeedElection)
    /\ dbHolder = NoTask
    /\ dbPoisoned = FALSE
    /\ streams = (SeedId :> 0)
    /\ nchan = 1
    /\ subs = [s \in SubIds |-> InactiveSub]
    /\ task = [t \in Tasks |-> IdleTask]
    /\ nreq = 0
    /\ tally = NoTally
    /\ \E nominees \in TallyRegistries, ph \in {FirstVote, SecondVote} :
          proc = [NoProc EXCEPT
                     !.st = "created",
                     !.e = [phase |-> ph, nominees |-> nominees,
                            first_round_id |-> EmptyMap,
                            second_round_id |-> EmptyMap]]
    /\ npub = 0

\* The match of post_election_voting, with the form of the request.
BallotVote ==
    /\ proc.st = "created"
    /\ proc.calls < MaxVotes
    /\ \E voter \in BallotVoters, vote \in DOMAIN proc.e.nominees \cup UnknownIds :
          proc' = [proc EXCEPT
                      !.e = AddVote(@, proc.e.phase, voter, vote),
                      !.calls = @ + 1,
                      !.hist = Append(@, [op |-> "vote", from |-> proc.e.phase,
                                          voter |-> voter, vote |-> vote])]
    /\ UNCHANGED <<db, dbHolder, dbPoisoned, streams, subs, task, nreq, nchan, lin,
                   tally, npub>>

\* The "next" arm of post_election_step closes the round.
BallotClose ==
    /\ proc.st = "created"
    /\ proc' = [proc EXCEPT !.st = "stored", !.e = ApplyStep(@, "next")]
    /\ UNCHANGED <<db, dbHolder, dbPoisoned, streams, subs, task, nreq, nchan, lin,
                   tally, npub>>

NextBallot == BallotVote \/ BallotClose \/ RunView

SpecBallot == InitBallot /\ [][NextBallot]_vars

(***************************************************************************)
(* The handlers with the streams mutex as a lock of its own.  Every        *)
(* handler takes it with a blocking lock() and holds the guard to the end  *)
(* of the statement.  A task whose pc is "held" holds the streams guard;   *)
(* a task that wants it waits at the pc named by WantsStreams.  No thread  *)
(* panics holding the streams guard, so this lock() never returns Err.     *)
(***************************************************************************)
MaxRequestsLocks == 2

StreamsHolders == {t \in Tasks : task[t].pc = "held"}

StreamsLockFree == StreamsHolders = {}

\* The handler's next statement is state.streams.lock().
WantsStreams(r) ==
    \/ r.op = "create" /\ r.pc = "streams"
    \/ r.op = "step" /\ r.pc = "streams"
    \/ r.op = "vote" /\ r.pc = "send"
    \/ r.op = "sse" /\ r.pc = "begin"

\* state.streams.lock() returns the guard.
LockStreams(t) ==
    /\ WantsStreams(task[t])
    /\ StreamsLockFree
    /\ task' = [task EXCEPT ![t].pc = "held"]
    /\ UNCHANGED <<db, dbHolder, dbPoisoned, streams, subs, nreq, nchan, lin,
                   tally, proc, npub>>

\* post_election: .insert(id, channel(16).0) under the streams guard;
\* Ok(CREATED).
CreateStreamsInsertHeld(t) ==
    /\ task[t].op = "create" /\ task[t].pc = "held"
    /\ streams' = MapInsert(streams, task[t].id, nchan)
    /\ nchan' = nchan + 1
    /\ Finish(t, task[t], "Created")
    /\ UNCHANGED <<db, dbPoisoned, subs, nreq, lin, tally, proc,
                   npub>>

\* post_election_step: db.lock()?; db.get_mut(&id)?
StepLockDb(t) ==
    /\ task[t].op = "step" /\ task[t].pc = "begin"
    /\ DbLockFree
    /\ \E stype \in StepTypes :
          LET r == AtLock([task[t] EXCEPT !.stype = stype])
          IN IF dbPoisoned THEN Finish(t, r, "DbLockError")
             ELSE IF r.id \notin DOMAIN db THEN Finish(t, r, "NotFound")
             ELSE Continue(t, r, "streams")
    /\ UNCHANGED <<db, dbPoisoned, streams, subs, nreq, nchan, lin, tally, proc,
                   npub>>

\* post_election_step: .get(&id)?.clone() under the streams guard, which the
\* statement then drops; election.phase.eq(&ElectionPhase::from_str(&step)?)
StepStreamsGetHeld(t) ==
    /\ task[t].op = "step" /\ task[t].pc = "held"
    /\ LET r == task[t]
       IN IF r.id \notin DOMAIN streams THEN Finish(t, r, "StreamNotFound")
          ELSE IF ~PhaseFromStrOk(r.label) THEN Finish(t, r, "UnknownPhase")
          ELSE IF db[r.id].phase = PhaseFromStr(r.label)
                 THEN Continue(t, [r EXCEPT !.ph = db[r.id].phase,
                                            !.chan = streams[r.id]], "apply")
                 ELSE Finish(t, r, "PhaseConflict")
    /\ UNCHANGED <<db, dbPoisoned, streams, subs, nreq, nchan, lin, tally, proc,
                   npub>>

\* post_election_voting: .get(&id).ok_or(500)?.send(VotesChanged) under the
\* streams guard.
VoteSendHeld(t) ==
    /\ task[t].op = "vote" /\ task[t].pc = "held"
    /\ IF task[t].id \notin DOMAIN streams
         THEN /\ Finish(t, task[t], "StreamNotFound")
              /\ UNCHANGED <<subs, npub>>
         ELSE IF SendOk(streams[task[t].id])
                THEN /\ subs' = Sent(streams[task[t].id],
                                     Event("VotesChanged", task[t].id))
                     /\ npub' = npub + 1
                     /\ Finish(t, task[t], "Ok")
                ELSE /\ Finish(t, task[t], "StreamSendError")
                     /\ UNCHANGED <<subs, npub>>
    /\ UNCHANGED <<db, dbPoisoned, streams, nreq, nchan, lin, tally, proc>>

\* A subscribe that takes the db mutex while it holds the streams guard.
SseSubscribeHeldLocksDb(t) ==
    /\ task[t].op = "sse" /\ task[t].pc = "held"
    /\ DbLockFree
    /\ IF task[t].id \in DOMAIN streams
         THEN /\ \E s \in FreeSubs :
                    subs' = [subs EXCEPT ![s] =
                                [InactiveSub EXCEPT
                                    !.active = TRUE,
                                    !.chan = streams[task[t].id],
                                    !.id = task[t].id,
                                    !.since = npub]]
              /\ Finish(t, task[t], "Stream")
         ELSE /\ Finish(t, task[t], "NotFound")
              /\ UNCHANGED subs
    /\ UNCHANGED <<db, dbPoisoned, streams, nreq, nchan, lin, tally, proc,
                   npub>>

\* get_election_sse_stream: .get(&id)?.subscribe() under the streams guard.
SseSubscribeHeld(t) ==
    /\ task[t].op = "sse" /\ task[t].pc = "held"
    /\ IF task[t].id \in DOMAIN streams
         THEN /\ \E s \in FreeSubs :
                    subs' = [subs EXCEPT ![s] =
                                [InactiveSub EXCEPT
                                    !.active = TRUE,
                                    !.chan = streams[task[t].id],
                                    !.id = task[t].id,
                                    !.since = npub]]
              /\ Finish(t, task[t], "Stream")
         ELSE /\ Finish(t, task[t], "NotFound")
              /\ UNCHANGED subs
    /\ UNCHANGED <<db, dbPoisoned, streams, nreq, nchan, lin, tally, proc,
                   npub>>

\* The next step of the handler that task t runs.
HandleLocks(t) ==
    \/ CreateInsert(t)
    \/ LockStreams(t)
    \/ CreateStreamsInsertHeld(t)
    \/ StepLockDb(t)
    \/ StepStreamsGetHeld(t)
    \/ StepApply(t)
    \/ StepSend(t)
    \/ VoteBegin(t)
    \/ VoteInsert(t)
    \/ VoteSendHeld(t)
    \/ ReadEval(t)
    \/ SseSubscribeHeld(t)

NextLocks ==
    \/ \E t \in Tasks : StartRequest(t, MaxRequestsLocks)
    \/ \E t \in Tasks : Respond(t)
    \/ \E t \in Tasks : HandleLocks(t)
    \/ \E s \in SubIds : Deliver(s)
    \/ \E s \in SubIds : Disconnect(s)

\* The runtime runs every handler that can take a step: a handler is a task
\* of its own, it blocks only in lock(), and a thread blocked in lock() is
\* woken when the guard is dropped.
SpecLocks ==
    /\ Init
    /\ [][NextLocks]_vars
    /\ \A t \in Tasks : WF_vars(HandleLocks(t))


(***************************************************************************)
(* Properties.                                                             *)
(***************************************************************************)
InFlight(t) == task[t].op # "idle"

Done(t) == task[t].pc = "done"

\* The step of post_election that inserts (or replaces) an election.
IsCreateStep ==
    \E t \in Tasks : /\ task[t].op = "create" /\ task[t].pc = "begin"
                     /\ task'[t].pc = "streams"

\* C1: in every step of a vote or a transition, round 1 changes only if the
\* phase is FirstVote when the step is taken and round 2 only if it is
\* SecondVote; so a vote handled in FirstTally, SecondTally or SafetyRound
\* leaves both rounds as they were.
C1_RoundsChangeOnlyInTheirVotePhase ==
    [][~IsCreateStep =>
          \A id \in DOMAIN db :
             /\ id \in DOMAIN db'
             /\ db'[id].first_round_id # db[id].first_round_id
                   => db[id].phase = FirstVote
             /\ db'[id].second_round_id # db[id].second_round_id
                   => db[id].phase = SecondVote]_vars

\* A vote has been handled in a phase that takes no votes, after another
\* vote was stored in round 1.
C1_Witness ==
    \E t \in Tasks :
       /\ task[t].op = "vote" /\ task[t].pc = "send"
       /\ task[t].ph \in {FirstTally, SecondTally, SafetyRound}
       /\ "x" \in DOMAIN db[task[t].id].first_round_id

\* C2: a transition request whose label names a phase other than the one the
\* election is in when the handler reaches it ends in PhaseConflict without
\* having run a mutation arm.
C2_MismatchReturnsPhaseConflict ==
    \A t \in Tasks :
       (/\ task[t].op = "step" /\ Done(t)
        /\ task[t].snapPhase \in Phases
        /\ PhaseFromStrOk(task[t].label)
        /\ PhaseFromStr(task[t].label) # task[t].snapPhase)
          => (task[t].res = "PhaseConflict" /\ ~task[t].applied)

\* next moves the phase from p, prev moves it from p.
Moves(stype, p) ==
    \/ stype = "next" /\ p # SafetyRound
    \/ stype = "prev" /\ p # FirstVote

\* Two requests for the same transition, both sent with the phase their
\* clients saw, P, one sent while the other was being handled, and both
\* answered.
RacePair(t, u) ==
    /\ t # u
    /\ task[t].conc \/ task[u].conc
    /\ task[t].op = "step" /\ Done(t)
    /\ task[u].op = "step" /\ Done(u)
    /\ task[t].id = task[u].id
    /\ task[t].stype = task[u].stype
    /\ task[t].label = task[u].label
    /\ PhaseFromStrOk(task[t].label)
    /\ task[t].seenPhase = PhaseFromStr(task[t].label)
    /\ task[u].seenPhase = PhaseFromStr(task[u].label)
    /\ Moves(task[t].stype, task[t].seenPhase)

\* C3: of two racing requests for the same transition exactly one is applied
\* and the other ends in PhaseConflict.
C3_RaceAppliesExactlyOne ==
    \A t, u \in Tasks :
       RacePair(t, u) =>
          \/ task[t].applied /\ ~task[u].applied /\ task[u].res = "PhaseConflict"
          \/ task[u].applied /\ ~task[t].applied /\ task[t].res = "PhaseConflict"

TallyExample ==
    /\ tally.nominees = (0 :> NameAmy @@ 1 :> NameBo)
    /\ tally.round = ("v1" :> 0 @@ "v2" :> 1)

TallyEntries ==
    {[name |-> tally.nominees[k], count |-> GroupLen(tally.round, k)]
        : k \in VotedIds(tally.round)}

\* C4 as claimed: the tally is ordered by count descending and, for equal
\* counts, by name descending; the example yields (Bo, 1), (Amy, 1).
C4_TiesByNameDescending ==
    tally.st = "ok" =>
       /\ \A i \in 1 .. (Len(tally.res) - 1) :
             \/ tally.res[i].count > tally.res[i + 1].count
             \/ /\ tally.res[i].count = tally.res[i + 1].count
                /\ StrCmp(tally.res[i].name, tally.res[i + 1].name) > 0
       /\ TallyExample =>
             tally.res = <<[name |-> NameBo, count |-> 1],
                           [name |-> NameAmy, count |-> 1]>>

\* C4 as amended: the tally holds one (name, count) pair for every nominee
\* voted for, ordered by count descending and, for equal counts, by name
\* ascending; the example yields (Amy, 1), (Bo, 1).
C4_TiesByNameAscending ==
    tally.st = "ok" =>
       /\ {tally.res[i] : i \in DOMAIN tally.res} = TallyEntries
       /\ Len(tally.res) = Cardinality(TallyEntries)
       /\ \A i \in 1 .. (Len(tally.res) - 1) :
             \/ tally.res[i].count > tally.res[i + 1].count
             \/ /\ tally.res[i].count = tally.res[i + 1].count
                /\ StrCmp(tally.res[i].name, tally.res[i + 1].name) < 0
       /\ TallyExample =>
             tally.res = <<[name |-> NameAmy, count |-> 1],
                           [name |-> NameBo, count |-> 1]>>

\* The example of the claim has been tallied.
C4_Witness == tally.st = "ok" /\ TallyExample

\* C5: a vote on an existing election ends in Ok, and a transition request
\* with the matching label and a valid direction ends in Accepted, whatever
\* the number of subscribers.
C5_SucceedsWithoutSubscribers ==
    \A t \in Tasks :
       Done(t) /\ task[t].snapPhase \in Phases =>
          /\ task[t].op = "vote" => task[t].res = "Ok"
          /\ (/\ task[t].op = "step"
              /\ task[t].label = PhaseToString(task[t].snapPhase)
              /\ ValidStepType(task[t].stype)) => task[t].res = "Accepted"

\* C6: a task that is about to send an event holds no db guard.
C6_NoGuardHeldAtSend ==
    \A t \in Tasks : task[t].pc = "send" => dbHolder # t

\* What the request of task t makes of the election it found.
Mutated(t) ==
    IF task[t].op = "vote"
      THEN SpecCastVote(task[t].snap, task[t].voter, task[t].vote)
      ELSE SpecTransition(task[t].snap, task[t].stype)

\* C7: when a task is about to publish the event of its mutation, the
\* election in the registry is already what the mutation makes of it, so
\* whoever receives the event and then reads the election finds the mutation
\* (or a later state).
C7_PublishedAfterApplied ==
    \A t \in Tasks :
       task[t].pc = "send" =>
          /\ task[t].id \in DOMAIN db
          /\ db[task[t].id] = Mutated(t)

\* A subscriber holds the event of a transition that changed the election.
C7_Witness ==
    \E s \in SubIds :
       /\ subs[s].active
       /\ subs[s].q # <<>>
       /\ subs[s].q[1].kind = "PhaseChanged"
       /\ db[SeedId].phase = FirstTally

\* C8: the registry is at every moment the one the requests produce when
\* they are applied one at a time, at most one task is between taking the db
\* mutex and returning, and the phase a handler read is still the election's
\* phase when the handler writes.
C8_Linearized ==
    /\ db = lin
    /\ \A t, u \in Tasks :
          /\ task[t].pc \in {"streams", "apply", "insert", "send"}
          /\ task[u].pc \in {"streams", "apply", "insert", "send"}
          => t = u
    /\ \A t \in Tasks :
          task[t].pc \in {"apply", "insert"} =>
             /\ task[t].id \in DOMAIN db
             /\ db[task[t].id].phase = task[t].ph

\* A vote sent in FirstVote waits for the mutex while a next from FirstVote
\* has been applied and is not yet finished.
C8_Witness ==
    \E t, u \in Tasks :
       /\ task[t].op = "vote" /\ task[t].pc = "begin"
       /\ task[t].seenPhase = FirstVote
       /\ task[u].op = "step" /\ task[u].pc = "send"
       /\ task[u].stype = "next" /\ task[u].ph = FirstVote
       /\ task[u].id = task[t].id

\* C9: every nominee id stored in a round is an id of the election's
\* nominee registry.
C9_StoredVotesAreNominees ==
    \A id \in DOMAIN db :
       /\ VotedIds(db[id].first_round_id) \subseteq DOMAIN db[id].nominees
       /\ VotedIds(db[id].second_round_id) \subseteq DOMAIN db[id].nominees

\* C10: a failed tally read fails nothing but itself: no request ends in the
\* error of a db mutex that an earlier request left poisoned.
C10_ErrorsAreLocal ==
    \A t \in Tasks : task[t].res # "DbLockError"

\* C11: a step of post_election never changes an election the registry
\* already holds, and no step ever replaces the channel of an id: the id a
\* creation draws is new.
C11_CreateNeverReplaces ==
    [][/\ \A id \in DOMAIN db :
             /\ id \in DOMAIN db'
             /\ IsCreateStep => db'[id] = db[id]
       /\ \A id \in DOMAIN streams :
             /\ id \in DOMAIN streams'
             /\ streams'[id] = streams[id]]_vars

\* The names a form holds: its lines that are not empty.
FormNamesOf(lines) == {lines[i] : i \in DOMAIN lines} \ {NameEmpty}

\* C12: the election built from a list of names is in FirstVote with both
\* rounds empty, and its registry has the ids 0..N-1, N the number of distinct
\* non-empty names, id i holding the i-th name in ascending order; B, A, A
\* gives {0: A, 1: B}.
C12_CreateCleansNominees ==
    proc.st = "created" =>
       LET reg == proc.e.nominees
           names == FormNamesOf(proc.lines)
       IN /\ proc.hist = <<>> =>
                /\ proc.e.phase = FirstVote
                /\ proc.e.first_round_id = EmptyMap
                /\ proc.e.second_round_id = EmptyMap
          /\ DOMAIN reg = 0 .. (Cardinality(names) - 1)
          /\ {reg[i] : i \in DOMAIN reg} = names
          /\ \A i, j \in DOMAIN reg : i < j => StrCmp(reg[i], reg[j]) < 0
          /\ proc.lines = <<NameB, NameA, NameA>> => reg = (0 :> NameA @@ 1 :> NameB)

\* The election of the form B, A, A has just been built.
C12_Witness ==
    /\ proc.st = "created"
    /\ proc.hist = <<>>
    /\ proc.lines = <<NameB, NameA, NameA>>

\* The phase the k-th of the calls kept in hist left behind.
PhaseAfter(k) ==
    IF k = Len(proc.hist) THEN proc.e.phase ELSE proc.hist[k + 1].from

\* The k-th call kept in hist is a and the call after it is b.
Followed(k, a, b) ==
    /\ k + 1 \in DOMAIN proc.hist
    /\ proc.hist[k].op = a
    /\ proc.hist[k + 1].op = b

\* C13 as claimed: next then prev from a phase other than FirstVote, and prev
\* then next from a phase other than SafetyRound, end in the phase they
\* started from.
C13_InvertsAwayFromOwnBoundary ==
    \A k \in DOMAIN proc.hist :
       /\ Followed(k, "next", "prev") /\ proc.hist[k].from # FirstVote
             => PhaseAfter(k + 1) = proc.hist[k].from
       /\ Followed(k, "prev", "next") /\ proc.hist[k].from # SafetyRound
             => PhaseAfter(k + 1) = proc.hist[k].from

\* C13 as amended: next then prev from a phase other than SafetyRound, and
\* prev then next from a phase other than FirstVote, end in the phase they
\* started from; from SafetyRound next then prev ends in SecondTally, and
\* from FirstVote prev then next ends in FirstTally.
C13_InvertsAwayFromSaturation ==
    \A k \in DOMAIN proc.hist :
       /\ Followed(k, "next", "prev") =>
             PhaseAfter(k + 1) = IF proc.hist[k].from # SafetyRound
                                   THEN proc.hist[k].from ELSE SecondTally
       /\ Followed(k, "prev", "next") =>
             PhaseAfter(k + 1) = IF proc.hist[k].from # FirstVote
                                   THEN proc.hist[k].from ELSE FirstTally

\* next then prev has been run from SecondTally, through SafetyRound, and
\* the election is in SecondTally again.
C13_Witness ==
    /\ Followed(1, "next", "prev")
    /\ proc.hist[1].from = SecondTally
    /\ proc.e.phase = SecondTally

\* C14: every call moves the phase along the order FirstVote, FirstTally,
\* SecondVote, SecondTally, SafetyRound: next by one position forward, or not
\* at all from SafetyRound; prev by one position back, or not at all from
\* FirstVote; a reset or a vote not at all.
C14_PhaseMovesOnePosition ==
    \A k \in DOMAIN proc.hist :
       LET p == proc.hist[k].from
           q == PhaseAfter(k)
           op == proc.hist[k].op
       IN /\ q \in Phases
          /\ op = "next" => q = IF p = SafetyRound THEN SafetyRound ELSE p + 1
          /\ op = "prev" => q = IF p = FirstVote THEN FirstVote ELSE p - 1
          /\ op \notin {"next", "prev"} => q = p

\* The election, stepped to SafetyRound, has taken one more next and is in
\* SafetyRound still.
C14_Witness ==
    /\ proc.hist # <<>>
    /\ proc.hist[Len(proc.hist)].op = "next"
    /\ proc.hist[Len(proc.hist)].from = SafetyRound
    /\ proc.e.phase = SafetyRound

\* A transition request of the given direction has run its arm and holds the
\* db guard, so the registry holds what the arm made of the election found.
AfterArm(t, stypes) ==
    /\ task[t].op = "step"
    /\ task[t].pc = "send"
    /\ task[t].stype \in stypes

\* C15: a reset empties round 1 and keeps round 2 in FirstVote, empties round
\* 2 and keeps round 1 in SecondVote, changes neither round in the other
\* phases, and never changes the phase or the nominees.
C15_ResetClearsCurrentRound ==
    \A t \in Tasks :
       AfterArm(t, {"reset"}) =>
          LET old == task[t].snap
              new == db[task[t].id]
          IN /\ new.phase = old.phase
             /\ new.nominees = old.nominees
             /\ new.first_round_id =
                   IF old.phase = FirstVote THEN EmptyMap ELSE old.first_round_id
             /\ new.second_round_id =
                   IF old.phase = SecondVote THEN EmptyMap ELSE old.second_round_id

\* A reset in SecondVote has emptied a round 2 that held a vote and has left
\* the votes of round 1.
C15_Witness ==
    \E t \in Tasks :
       /\ AfterArm(t, {"reset"})
       /\ task[t].snap.phase = SecondVote
       /\ task[t].snap.second_round_id # EmptyMap
       /\ db[task[t].id].second_round_id = EmptyMap
       /\ db[task[t].id].first_round_id # EmptyMap

\* C16: next and prev change nothing but the phase: both rounds and the
\* nominees are after the call what they were before it.
C16_StepsKeepRounds ==
    \A t \in Tasks :
       AfterArm(t, {"next", "prev"}) =>
          /\ db[task[t].id].first_round_id = task[t].snap.first_round_id
          /\ db[task[t].id].second_round_id = task[t].snap.second_round_id
          /\ db[task[t].id].nominees = task[t].snap.nominees

\* The election has been stepped back from FirstTally into FirstVote and
\* round 1 still holds its votes.
C16_Witness ==
    \E t \in Tasks :
       /\ AfterArm(t, {"prev"})
       /\ task[t].snap.phase = FirstTally
       /\ db[task[t].id].phase = FirstVote
       /\ db[task[t].id].first_round_id # EmptyMap

\* The subscribers listening to an election.
Attached(id) == {s \in SubIds : subs[s].active /\ subs[s].id = id}

\* A transition request whose label names the phase the election is in when
\* the handler reaches it, with one of the three directions.
Matched(t) ==
    /\ task[t].op = "step"
    /\ task[t].snapPhase \in Phases
    /\ task[t].label = PhaseToString(task[t].snapPhase)
    /\ ValidStepType(task[t].stype)

\* The handler of task t, of the given kind, takes its last step from send.
Publishes(t, op) ==
    /\ task[t].op = op
    /\ task[t].pc = "send"
    /\ task'[t].pc = "done"

\* Every subscriber listening to the election of task t gets one more event,
\* of the given kind.
AllReceive(t, kind) ==
    \A s \in Attached(task[t].id) :
       subs'[s] = [subs[s] EXCEPT !.q = Append(@, Event(kind, task[t].id))]

\* C17: a matched transition request applies its mutation, and its send
\* queues exactly one PhaseChanged event for every subscriber listening to
\* the election at that moment.
C17_MatchedTransitionPublishes ==
    /\ [](\A t \in Tasks : Matched(t) /\ Done(t) => task[t].applied)
    /\ [][\A t \in Tasks :
             Publishes(t, "step") => AllReceive(t, "PhaseChanged")]_vars

\* C18: a vote on an existing election ends in Ok in every phase, and its
\* send queues exactly one VotesChanged event for every subscriber listening
\* to the election at that moment.
C18_VoteAlwaysOkAndPublishes ==
    /\ [](\A t \in Tasks :
             task[t].op = "vote" /\ Done(t) /\ task[t].snapPhase \in Phases
                => task[t].res = "Ok")
    /\ [][\A t \in Tasks :
             Publishes(t, "vote") => AllReceive(t, "VotesChanged")]_vars

\* C19: the events queued for a subscriber were sent for its election, after
\* it subscribed, and are queued in the order in which they were sent, none
\* of them twice; and a step changes the queue of a subscription only by
\* taking its oldest event or by adding the event that is being sent.
C19_DeliveryAtMostOnceInOrder ==
    /\ [](\A s \in SubIds :
             subs[s].active =>
                \A i \in DOMAIN subs[s].q :
                   /\ subs[s].q[i].id = subs[s].id
                   /\ subs[s].q[i].no > subs[s].since
                   /\ subs[s].q[i].no <= npub
                   /\ i > 1 => subs[s].q[i - 1].no < subs[s].q[i].no)
    /\ [][\A s \in SubIds :
             subs[s].active /\ subs'[s].active =>
                \/ subs'[s].q = subs[s].q
                \/ subs[s].q # <<>> /\ subs'[s].q = Tail(subs[s].q)
                \/ /\ npub' = npub + 1
                   /\ \E kind \in {"VotesChanged", "PhaseChanged"} :
                         subs'[s].q = Append(subs[s].q, Event(kind, subs[s].id))]_vars

\* A subscriber that came after an event had been sent holds a later event.
C19_Witness ==
    \E s \in SubIds :
       /\ subs[s].active
       /\ subs[s].since > 0
       /\ subs[s].q # <<>>

\* C20: a subscriber that does not take its events loses the oldest of them
\* to the channel's capacity and goes on receiving: no stream ends on the
\* notice of the loss.
C20_SlowSubscriberKeepsReceiving ==
    \A s \in SubIds :
       /\ ~subs[s].panicked
       /\ subs[s].active =>
             /\ Len(subs[s].q) <= Capacity
             /\ subs[s].lag > 0 => Len(subs[s].q) = Capacity

(***************************************************************************)
(* The evaluation view                                                     *)
(***************************************************************************)
\* The round the phase selects, written out from the phases' meaning.
SelectedRound(e) ==
    IF e.phase \in {FirstVote, FirstTally} THEN e.first_round_id
    ELSE e.second_round_id

\* The name and count of every nominee id voted for in a round.
CountsOf(e, round) ==
    {<<e.nominees[k], Cardinality({v \in DOMAIN round : round[v] = k})>> :
        k \in {round[v] : v \in DOMAIN round}}

EntriesOf(view) ==
    {<<view.entries[i].name, view.entries[i].count>> : i \in DOMAIN view.entries}

\* C21: every view is computed from the round its phase selects: round 1 in
\* FirstVote and FirstTally, round 2 in SecondVote, SecondTally and
\* SafetyRound.  The voter list is that round's voters, the number of votes
\* is that round's size, the chart rows and the safety round's readout are
\* that round's counts, a view fails only on an id of that round, and the
\* safety round's readout is the same with round 1 emptied.
C21_ViewReadsTheRoundOfThePhase ==
    proc.st = "viewed" =>
       LET e == proc.e
           v == proc.view
           r == SelectedRound(e)
       IN /\ v.kind = "voters" =>
               /\ e.phase \in {FirstVote, SecondVote}
               /\ v.voters = DOMAIN r
               /\ v.count = Cardinality(DOMAIN r)
          /\ v.kind = "tally" =>
               /\ e.phase \in {FirstTally, SecondTally}
               /\ v.count = Cardinality(DOMAIN r)
               /\ EntriesOf(v) = CountsOf(e, r)
          /\ v.kind = "safety" =>
               /\ e.phase = SafetyRound
               /\ EntriesOf(v) = CountsOf(e, r)
               /\ \A i \in DOMAIN v.winners :
                     \E x \in DOMAIN r : e.nominees[r[x]] = v.winners[i]
               /\ \E order \in Orders(VotedIds(e.second_round_id)) :
                     v = eval_election([e EXCEPT !.first_round_id = EmptyMap],
                                       order)
          /\ v.kind = "panic" =>
               /\ e.phase \in {FirstTally, SecondTally, SafetyRound}
               /\ \E x \in DOMAIN r : r[x] \notin DOMAIN e.nominees
          /\ v.kind \in {"voters", "tally", "safety", "panic"}

\* A safety round readout whose winner has no vote in round 1, while round 1
\* holds votes for another nominee.
C21_Witness ==
    /\ proc.st = "viewed"
    /\ proc.e.phase = SafetyRound
    /\ proc.view.kind = "safety"
    /\ proc.view.winners = <<NameBo>>
    /\ Cardinality(DOMAIN proc.e.first_round_id) = 3
    /\ \A x \in DOMAIN proc.e.first_round_id :
          proc.e.nominees[proc.e.first_round_id[x]] = NameAmy

\* The positions of a view's entries whose count is the view's max_votes.
Leaders(view) ==
    {i \in DOMAIN view.entries : view.entries[i].count = view.max_votes}

\* C22: max_votes is the largest count of the accumulated entries, and 1 when
\* there are none; the safety round's readout names exactly the entries whose
\* count is max_votes, in the order of the accumulated entries, and names
\* nobody when the round is empty.
C22_MaxAndCoLeaders ==
    (proc.st = "viewed" /\ proc.view.kind \in {"tally", "safety"}) =>
       LET v == proc.view
       IN /\ v.entries = <<>> => v.max_votes = 1
          /\ v.entries # <<>> =>
               /\ \E i \in DOMAIN v.entries : v.entries[i].count = v.max_votes
               /\ \A i \in DOMAIN v.entries : v.entries[i].count <= v.max_votes
          /\ v.kind = "safety" =>
               /\ Len(v.winners) = Cardinality(Leaders(v))
               /\ \A j \in DOMAIN v.winners :
                     \E i \in Leaders(v) :
                        /\ Cardinality({k \in Leaders(v) : k < i}) = j - 1
                        /\ v.winners[j] = v.entries[i].name
               /\ v.entries = <<>> => v.winners = <<>>

\* A safety round readout with two co-leading nominees.
C22_Witness ==
    /\ proc.st = "viewed"
    /\ proc.view.kind = "safety"
    /\ proc.view.max_votes = 1
    /\ proc.view.winners = <<NameAmy, NameBo>>

(***************************************************************************)
(* One vote per voter                                                      *)
(***************************************************************************)
\* The voters of the votes cast so far, and the last vote of each.
Voted == {proc.hist[i].voter : i \in DOMAIN proc.hist}

LastVote(voter) ==
    LET n == CHOOSE i \in DOMAIN proc.hist :
                /\ proc.hist[i].voter = voter
                /\ \A k \in DOMAIN proc.hist :
                      proc.hist[k].voter = voter => k <= i
    IN proc.hist[n].vote

RECURSIVE SumCounts(_)
SumCounts(acc) ==
    IF acc = <<>> THEN 0 ELSE acc[1].count + SumCounts(Tail(acc))

\* C23: the open round holds exactly one entry for each voter who voted in
\* it, the nominee id of that voter's latest vote; the other round holds
\* nothing; and the counts of the round's tally sum to the number of distinct
\* voters, so a second vote of a voter moves the vote.
C23_OneVotePerVoter ==
    proc.st \in {"created", "stored", "viewed"} =>
       LET r == SelectedRound(proc.e)
           other == IF proc.e.phase \in {FirstVote, FirstTally}
                      THEN proc.e.second_round_id
                      ELSE proc.e.first_round_id
       IN /\ DOMAIN r = Voted
          /\ \A voter \in Voted : r[voter] = LastVote(voter)
          /\ other = EmptyMap
          /\ (proc.st = "viewed" /\ proc.view.kind = "tally") =>
                SumCounts(proc.view.entries) = Cardinality(Voted)

\* A tally of two voters' votes, one of whom voted twice for different
\* nominees.
C23_Witness ==
    /\ proc.st = "viewed"
    /\ proc.view.kind = "tally"
    /\ Len(proc.hist) = 3
    /\ Cardinality(Voted) = 2
    /\ \E i, k \in DOMAIN proc.hist :
          /\ i < k
          /\ proc.hist[i].voter = proc.hist[k].voter
          /\ proc.hist[i].vote # proc.hist[k].vote
    /\ SumCounts(proc.view.entries) = 2

(***************************************************************************)
(* Rejected transitions                                                    *)
(***************************************************************************)
\* The handler of task t returns in this step.
Returns(t) == task[t].op # "idle" /\ task[t].pc # "done" /\ task'[t].pc = "done"

CanonicalLabels == {"FirstVote", "FirstTally", "SecondVote", "SecondTally",
                    "SafetyRound"}

Directions == {"next", "prev", "reset"}

\* C24: a transition request whose label names no phase, or whose direction
\* is not next, prev or reset, ends in a rejection and has not run a mutation
\* arm: the map is as it was.  On an election that is there, behind a healthy
\* mutex, a label that names no phase gets UnknownPhase, and a request that
\* passed the guard with a direction of no arm gets InvalidDirection.
C24_MalformedTransitionChangesNothing ==
    [][\A t \in Tasks :
          (/\ task[t].op = "step" /\ Returns(t)
           /\ \/ task'[t].label \notin CanonicalLabels
              \/ task'[t].stype \notin Directions)
            => /\ task'[t].res \in {"UnknownPhase", "InvalidDirection",
                                    "PhaseConflict", "NotFound", "DbLockError"}
               /\ ~task'[t].applied
               /\ db' = db
               /\ (task[t].pc = "apply" =>
                      /\ db[task[t].id] = task[t].snap
                      /\ task'[t].res = "InvalidDirection")
               /\ (/\ task'[t].label \notin CanonicalLabels
                   /\ ~dbPoisoned /\ task[t].id \in DOMAIN db)
                     => task'[t].res = "UnknownPhase"]_vars

\* A request with a direction of no arm was rejected in FirstTally, on an
\* election whose phase is still FirstTally.
C24_Witness ==
    \E t \in Tasks :
       /\ task[t].op = "step" /\ Done(t)
       /\ task[t].res = "InvalidDirection"
       /\ task[t].stype = "sideways"
       /\ task[t].snapPhase = FirstTally
       /\ db[task[t].id].phase = FirstTally

(***************************************************************************)
(* Requests on an id the map does not hold                                 *)
(***************************************************************************)
\* C25: a vote, transition, read or subscribe request on an election id that
\* is not in the map returns NotFound, and its handler changes no election,
\* adds no entry to either map and publishes nothing.
C25_AbsentIdReturnsNotFound ==
    [][\A t \in Tasks :
          (/\ task[t].op \in {"vote", "step", "read", "sse"}
           /\ Returns(t)
           /\ task[t].pc = "begin"
           /\ task[t].id \notin DOMAIN db)
            => /\ task'[t].res = "NotFound"
               /\ ~task'[t].applied
               /\ db' = db
               /\ streams' = streams
               /\ subs' = subs
               /\ npub' = npub]_vars

(***************************************************************************)
(* The two maps                                                            *)
(***************************************************************************)
\* C27: whenever no handler holds the db guard the two maps hold the same
\* election ids, and no vote or transition ends in "Stream not found".
C27_MapsAgreeWhenUnlocked ==
    /\ dbHolder = NoTask => DOMAIN db = DOMAIN streams
    /\ \A t \in Tasks :
          task[t].op \in {"vote", "step"} => task[t].res # "StreamNotFound"

\* A vote sent while a creation was being handled has found the election the
\* creation inserted, and its channel.
C27_Witness ==
    \E t, u \in Tasks :
       /\ task[t].op = "create" /\ Done(t) /\ task[t].res = "Created"
       /\ task[u].op = "vote" /\ Done(u) /\ task[u].conc
       /\ task[u].id = task[t].id
       /\ task[u].res \in {"Ok", "StreamSendError"}

(***************************************************************************)
(* What a rejected transition publishes                                    *)
(***************************************************************************)
\* The last event queued for a receiver, by its number; 0 when none is.
LastQueued(sub) == IF sub.q = <<>> THEN 0 ELSE sub.q[Len(sub.q)].no

\* C28: the step in which a transition request ends in NotFound,
\* PhaseConflict, UnknownPhase or InvalidDirection sends nothing on any
\* channel, and a PhaseChanged event is queued for a receiver only by the
\* send of a transition that passed the guard and ran its arm.
C28_RejectedTransitionPublishesNothing ==
    [][/\ \A t \in Tasks :
             (/\ task[t].op = "step" /\ Returns(t)
              /\ task'[t].res \in {"NotFound", "PhaseConflict", "UnknownPhase",
                                   "InvalidDirection"})
               => /\ subs' = subs
                  /\ npub' = npub
                  /\ task[t].pc # "send"
       /\ \A s \in SubIds :
             (/\ subs'[s].q # <<>>
              /\ LastQueued(subs'[s]) # LastQueued(subs[s])
              /\ subs'[s].q[Len(subs'[s].q)].kind = "PhaseChanged")
               => \E t \in Tasks :
                     /\ task[t].op = "step" /\ task[t].pc = "send"
                     /\ task[t].applied
                     /\ task[t].id = subs[s].id
                     /\ task'[t].res = "Accepted"]_vars

\* A subscriber of an election has been sent the one PhaseChanged of the
\* transition that was accepted, and nothing for the transition that was
\* rejected with PhaseConflict.
C28_Witness ==
    \E t, u \in Tasks, s \in SubIds :
       /\ task[t].op = "step" /\ Done(t) /\ task[t].res = "PhaseConflict"
       /\ task[u].op = "step" /\ Done(u) /\ task[u].res = "Accepted"
       /\ task[t].id = task[u].id
       /\ subs[s].active /\ subs[s].id = task[t].id
       /\ Len(subs[s].q) = 1
       /\ subs[s].q[1].kind = "PhaseChanged"
       /\ npub = subs[s].since + 1

(***************************************************************************)
(* The two mutexes                                                         *)
(***************************************************************************)
\* The handler of task t has started and has not returned.
Running(t) == task[t].op # "idle" /\ task[t].pc # "done"

\* The step a task waits to take needs the db mutex.
WaitsForDb(t) ==
    /\ Running(t)
    /\ task[t].pc = "begin"
    /\ task[t].op \in {"create", "step", "vote", "read"}

\* C26: a task that takes both mutexes takes the db mutex first: whoever
\* waits for the streams mutex holds the db guard or is a subscribe, which
\* never takes the db mutex; at most one task holds each guard; a task that
\* holds the streams guard does not wait for the db mutex and can always take
\* its next step; while a handler runs, some handler can take a step; and
\* every handler that has started returns.
C26_LockOrderAndProgress ==
    /\ [](/\ \A t \in Tasks :
                WantsStreams(task[t]) => (dbHolder = t \/ task[t].op = "sse")
          /\ Cardinality(StreamsHolders) <= 1
          /\ \A t \in StreamsHolders :
                ~WaitsForDb(t) /\ ENABLED HandleLocks(t)
          /\ (\E t \in Tasks : Running(t)) =>
                \E t \in Tasks : ENABLED HandleLocks(t))
    /\ \A t \in Tasks : Running(t) ~> Done(t)

\* A creation holds the db guard and waits for the streams mutex, which a
\* subscribe holds.
C26_Witness ==
    \E t, u \in Tasks :
       /\ task[t].op = "create" /\ task[t].pc = "streams" /\ dbHolder = t
       /\ task[u].op = "sse" /\ task[u].pc = "held"

====
